---- MODULE Spec2Model ----
(***************************************************************************)
(* Model of the Arturo extension for Zed: the bundle locator and launcher. *)
(* Two builds of the same extension exist: src/lib-debug.rs searches a     *)
(* list of candidate locations for bundle.js ("search" variant) and        *)
(* src/lib.rs writes an embedded bundle to disk ("embed" variant).         *)
(* The extension instance, the filesystem it looks at and the answers of   *)
(* the host (current directory, executable path, node binary) are the      *)
(* state; each trait method is one action.                                 *)
(***************************************************************************)
EXTENDS Integers, Sequences, FiniteSets, TLC

VARIABLES variant, cached_binary_path, fs, cwd, exe, last, lastMiss

vars == <<variant, cached_binary_path, fs, cwd, exe, last, lastMiss>>

----------------------------------------------------------------------------
(* Option<T> and Result<T, String>.  An error message is kept as the       *)
(* sequence of the pieces format! glues together.                          *)

None == <<>>
Some(x) == <<x>>

Ok(v) == [ok |-> TRUE, val |-> v, err |-> <<>>]
Err(m) == [ok |-> FALSE, val |-> "", err |-> m]

----------------------------------------------------------------------------
(* Paths.  A PathBuf is the sequence of its components, starting with the  *)
(* root "/".  One directory name is not valid UTF-8.                       *)

NonUtf8Components == {"ext<FF>"}

CurrentDirs == {<<"/", "ext">>, <<"/", "ext<FF>">>}

(* What std::env::current_exe() answers in this process: an error, the     *)
(* root (a path without parent), or a file in some directory.              *)
CurrentExes == {Err(<<"unsupported">>), Ok(<<"/">>),
                Ok(<<"/", "ext", "extension.wasm">>),
                Ok(<<"/", "bin", "zed">>)}

join(p, c) == Append(p, c)

parent(p) == IF Len(p) <= 1 THEN None ELSE Some(SubSeq(p, 1, Len(p) - 1))

RECURSIVE joinComponents(_, _)
joinComponents(p, i) ==
    IF i > Len(p) THEN ""
    ELSE IF i = Len(p) THEN p[i]
    ELSE p[i] \o "/" \o joinComponents(p, i + 1)

(* to_str written as a lossy conversion: it never answers None.            *)
to_str_lossy(p) == Some("/" \o joinComponents(p, 2))

(* Path::to_str: None when the path is not valid UTF-8.                    *)
to_str(p) ==
    IF \E i \in 1..Len(p) : p[i] \in NonUtf8Components THEN None
    ELSE Some("/" \o joinComponents(p, 2))

(* Path::display: lossy, an invalid byte shows as U+FFFD.                  *)
lossy(c) == IF c \in NonUtf8Components THEN "ext<U+FFFD>" ELSE c
display(p) == "/" \o joinComponents([i \in 1..Len(p) |-> lossy(p[i])], 2)

(* {:?} of a PathBuf: the lossy text, quoted.                              *)
debug(p) == "\"" \o display(p) \o "\""

----------------------------------------------------------------------------
(* The files the two variants look at.                                     *)

LANGUAGE_SERVER_BUNDLE == "bundle.js of this build"

BundlePaths(dir) ==
    <<join(dir, "bundle.js"), join(join(dir, "language-server"), "bundle.js")>>

ExePaths(e) ==
    IF e.ok /\ parent(e.val) # None
    THEN <<join(parent(e.val)[1], "bundle.js")>>
    ELSE <<>>

possible_paths(dir, e) == BundlePaths(dir) \o ExePaths(e)

EmbedTarget(dir) == join(dir, "arturo-lsp-bundle.js")

Range(s) == {s[i] : i \in 1..Len(s)}

AllPaths ==
    UNION {Range(possible_paths(d, e)) \cup {EmbedTarget(d)} :
             d \in CurrentDirs, e \in CurrentExes}

(* Path::new(&String): the path a string names.                            *)
PathOf(s) ==
    IF \E p \in AllPaths : to_str(p) = Some(s)
    THEN CHOOSE p \in AllPaths : to_str(p) = Some(s)
    ELSE <<"/", s>>

(* fs::metadata(path).is_ok()                                              *)
Exists(fsys, p) == p \in DOMAIN fsys /\ fsys[p] # "absent"

----------------------------------------------------------------------------
(* What the host and the operating system may answer to one call.          *)

CurrentDirResults(dir) == {Ok(dir), Err(<<"No such file or directory">>)}

NodeBinaryResults == {Ok("/zed/node/bin/node"), Err(<<"failed to install node">>)}

(* fs::write creates or truncates the file, then writes the contents.  It  *)
(* may fail before touching the file or after truncating it.               *)
WriteOutcomes == {"ok", "denied", "partial"}

(* fs_write that opens with create_new: an existing file is left alone.    *)
fs_write_create_new(fsys, p, contents, w) ==
    IF w = "ok"
    THEN [ok |-> TRUE,
          fs |-> IF fsys[p] = "absent" THEN [fsys EXCEPT ![p] = contents] ELSE fsys]
    ELSE IF w = "partial" THEN [ok |-> FALSE, fs |-> [fsys EXCEPT ![p] = "data"]]
    ELSE [ok |-> FALSE, fs |-> fsys]

fs_write(fsys, p, contents, w) ==
    IF w = "ok" THEN [ok |-> TRUE, fs |-> [fsys EXCEPT ![p] = contents]]
    ELSE IF w = "partial" THEN [ok |-> FALSE, fs |-> [fsys EXCEPT ![p] = "data"]]
    ELSE [ok |-> FALSE, fs |-> fsys]

(* LspSettings::for_worktree(..): an error, or settings that may be unset. *)
LspSettingsResults == {Err(<<"no settings">>), Ok(None), Ok(Some("user settings"))}

----------------------------------------------------------------------------
(* language_server_script_path, both variants.  The value is the record of *)
(* what one call returns and does: result, the new cached path, the new    *)
(* filesystem, and the calls it made (hit: returned from the cache check;  *)
(* probed: candidates whose existence the loop tested; writes: fs::write   *)
(* calls; status: calls of set_language_server_installation_status).       *)

(* CacheHit with the existence test inverted.                              *)
CacheHit_Inverted(cached, fsys) == cached # None /\ ~Exists(fsys, PathOf(cached[1]))

(* CacheHit without the existence test.                                    *)
CacheHit_NoExistenceCheck(cached, fsys) == cached # None

CacheHit(cached, fsys) == cached # None /\ Exists(fsys, PathOf(cached[1]))

(* Outcome of a call that forgets the cached path when it fails.           *)
Outcome_ClearsCache(result, cached, fsys, hit, probed, writes, status) ==
    [result |-> result, cached |-> IF result.ok THEN cached ELSE None,
     fs |-> fsys, hit |-> hit,
     probed |-> probed, writes |-> writes, status |-> status]

Outcome(result, cached, fsys, hit, probed, writes, status) ==
    [result |-> result, cached |-> cached, fs |-> fsys, hit |-> hit,
     probed |-> probed, writes |-> writes, status |-> status]

(* The loop without its early return: the last existing candidate wins.   *)
FirstExisting_Last(paths, fsys, i) ==
    IF \E k \in i..Len(paths) : Exists(fsys, paths[k])
    THEN CHOOSE k \in i..Len(paths) :
            /\ Exists(fsys, paths[k])
            /\ \A j \in (k + 1)..Len(paths) : ~Exists(fsys, paths[j])
    ELSE 0

RECURSIVE FirstExisting(_, _, _)
FirstExisting(paths, fsys, i) ==
    IF i > Len(paths) THEN 0
    ELSE IF Exists(fsys, paths[i]) THEN i
    ELSE FirstExisting(paths, fsys, i + 1)

(* paths_searched that lists the first candidate only.                     *)
paths_searched_first(paths, i) ==
    IF i > Len(paths) THEN <<>> ELSE <<"  - ", display(paths[i])>>

RECURSIVE paths_searched(_, _)
paths_searched(paths, i) ==
    IF i > Len(paths) THEN <<>>
    ELSE <<"  - ", display(paths[i])>>
         \o (IF i < Len(paths) THEN <<"\n">> ELSE <<>>)
         \o paths_searched(paths, i + 1)

(* The message without the list of paths.                                  *)
NotFoundMessage_NoList(paths, dir) ==
    <<"Language server bundle not found. Searched:\n">>
    \o <<"\nCurrent dir: ", debug(dir)>>

NotFoundMessage(paths, dir) ==
    <<"Language server bundle not found. Searched:\n">>
    \o paths_searched(paths, 1)
    \o <<"\nCurrent dir: ", debug(dir)>>

SearchCandidates(cached, fsys, current_dir, e) ==
    LET paths == possible_paths(current_dir, e)
        found == FirstExisting(paths, fsys, 1)
    IN IF found = 0
       THEN Outcome(Err(NotFoundMessage(paths, current_dir)),
                    cached, fsys, FALSE, paths, <<>>, 1)
       ELSE IF to_str(paths[found]) = None
       THEN Outcome(Err(<<"Failed to convert path to string">>),
                    cached, fsys, FALSE, SubSeq(paths, 1, found), <<>>, 1)
       ELSE Outcome(Ok(to_str(paths[found])[1]), Some(to_str(paths[found])[1]),
                    fsys, FALSE, SubSeq(paths, 1, found), <<>>, 2)

language_server_script_path_debug(cached, fsys, cwd_r, e) ==
    IF CacheHit(cached, fsys)
    THEN Outcome(Ok(cached[1]), cached, fsys, TRUE, <<>>, <<>>, 0)
    ELSE IF ~cwd_r.ok
    THEN Outcome(Err(<<"Failed to get current directory: ">> \o cwd_r.err),
                 cached, fsys, FALSE, <<>>, <<>>, 1)
    ELSE SearchCandidates(cached, fsys, cwd_r.val, e)

(* WriteBundle that caches the path before the write has succeeded.        *)
WriteBundle_CachesFirst(cached, fsys, current_dir, w) ==
    LET bundle_path == EmbedTarget(current_dir)
        written == fs_write(fsys, bundle_path, LANGUAGE_SERVER_BUNDLE, w)
        attempt == <<[path |-> bundle_path, ok |-> written.ok]>>
    IN IF to_str(bundle_path) = None
       THEN Outcome(Err(<<"Failed to convert path to string">>),
                    cached, fsys, FALSE, <<>>, <<>>, 1)
       ELSE IF ~written.ok
       THEN Outcome(Err(<<"Failed to write language server bundle: ", "io error">>),
                    Some(to_str(bundle_path)[1]), written.fs, FALSE, <<>>,
                    attempt, 1)
       ELSE Outcome(Ok(to_str(bundle_path)[1]), Some(to_str(bundle_path)[1]),
                    written.fs, FALSE, <<>>, attempt, 2)

WriteBundle(cached, fsys, current_dir, w) ==
    LET bundle_path == EmbedTarget(current_dir)
        written == fs_write(fsys, bundle_path, LANGUAGE_SERVER_BUNDLE, w)
        attempt == <<[path |-> bundle_path, ok |-> written.ok]>>
    IN IF ~written.ok
       THEN Outcome(Err(<<"Failed to write language server bundle: ", "io error">>),
                    cached, written.fs, FALSE, <<>>, attempt, 1)
       ELSE IF to_str(bundle_path) = None
       THEN Outcome(Err(<<"Failed to convert path to string">>),
                    cached, written.fs, FALSE, <<>>, attempt, 2)
       ELSE Outcome(Ok(to_str(bundle_path)[1]), Some(to_str(bundle_path)[1]),
                    written.fs, FALSE, <<>>, attempt, 2)

language_server_script_path(cached, fsys, cwd_r, w) ==
    IF CacheHit(cached, fsys)
    THEN Outcome(Ok(cached[1]), cached, fsys, TRUE, <<>>, <<>>, 0)
    ELSE IF ~cwd_r.ok
    THEN Outcome(Err(<<"Failed to get current directory: ">> \o cwd_r.err),
                 cached, fsys, FALSE, <<>>, <<>>, 1)
    ELSE WriteBundle(cached, fsys, cwd_r.val, w)

----------------------------------------------------------------------------
(* language_server_command: resolve the script, then ask the host for node *)

(* The descriptor without the flag.                                        *)
Command_NoStdio(node, server_path) ==
    [command |-> node, args |-> <<server_path>>, env |-> <<>>]

Command(node, server_path) ==
    [command |-> node, args |-> <<server_path, "--stdio">>, env |-> <<>>]

language_server_command(r, node_r) ==
    IF ~r.result.ok THEN Err(r.result.err)
    ELSE IF ~node_r.ok THEN Err(node_r.err)
    ELSE Ok(Command(node_r.val, r.result.val))

(* The record of one language_server_command call, kept in `last`.         *)
CallRecord(r, node_r, cwd_r) ==
    [op |-> "language_server_command",
     pre_cached |-> cached_binary_path,
     pre_fs |-> fs,
     cwd_r |-> cwd_r,
     resolution |-> r.result, hit |-> r.hit, probed |-> r.probed,
     writes |-> r.writes, status |-> r.status,
     node_asked |-> r.result.ok,
     node |-> node_r,
     command |-> language_server_command(r, node_r)]

Finish(r, node_r, cwd_r) ==
    /\ cached_binary_path' = r.cached
    /\ fs' = r.fs
    /\ last' = CallRecord(r, node_r, cwd_r)
    /\ lastMiss' = IF r.result.ok /\ ~r.hit THEN Some(r.result.val) ELSE lastMiss
    /\ UNCHANGED <<variant, cwd, exe>>

LanguageServerCommandDebug ==
    /\ variant = "search"
    /\ \E cwd_r \in CurrentDirResults(cwd), node_r \in NodeBinaryResults :
         Finish(language_server_script_path_debug(cached_binary_path, fs, cwd_r, exe),
                node_r, cwd_r)

LanguageServerCommand ==
    /\ variant = "embed"
    /\ \E cwd_r \in CurrentDirResults(cwd), node_r \in NodeBinaryResults,
          w \in WriteOutcomes :
         Finish(language_server_script_path(cached_binary_path, fs, cwd_r, w),
                node_r, cwd_r)

----------------------------------------------------------------------------
(* language_server_initialization_options                                  *)

initialization_options_debug ==
    Ok(Some([typeChecking |-> TRUE, definitions |-> TRUE, hover |-> TRUE]))

initialization_options(settings_r) ==
    Ok(Some([settings |->
               IF settings_r.ok /\ settings_r.val # None
               THEN settings_r.val[1] ELSE "null"]))

LanguageServerInitializationOptionsDebug ==
    /\ variant = "search"
    /\ last' = [op |-> "language_server_initialization_options",
                pre_cached |-> cached_binary_path,
                options |-> initialization_options_debug]
    /\ UNCHANGED <<variant, cached_binary_path, fs, cwd, exe, lastMiss>>

LanguageServerInitializationOptions ==
    /\ variant = "embed"
    /\ \E settings_r \in LspSettingsResults :
         last' = [op |-> "language_server_initialization_options",
                  pre_cached |-> cached_binary_path,
                  options |-> initialization_options(settings_r)]
    /\ UNCHANGED <<variant, cached_binary_path, fs, cwd, exe, lastMiss>>

----------------------------------------------------------------------------
(* The rest of the system creates, replaces and deletes the files the      *)
(* extension looks at, between two calls.                                  *)

WatchedPaths ==
    IF variant = "search" THEN Range(possible_paths(cwd, exe))
    ELSE {EmbedTarget(cwd)}

FileChange ==
    /\ \E p \in WatchedPaths, c \in {"absent", "data"} :
         /\ fs[p] # c
         /\ fs' = [fs EXCEPT ![p] = c]
    /\ last' = [op |-> "file change"]
    /\ UNCHANGED <<variant, cached_binary_path, cwd, exe, lastMiss>>

----------------------------------------------------------------------------
(* new(): no cached path.  The build, the working directory and the        *)
(* executable are those of the process.                                    *)

Init ==
    /\ variant \in {"search", "embed"}
    /\ cached_binary_path = None
    /\ fs = [p \in AllPaths |-> "absent"]
    /\ cwd \in CurrentDirs
    /\ exe \in CurrentExes
    /\ last = [op |-> "new"]
    /\ lastMiss = None

Next ==
    \/ LanguageServerCommandDebug
    \/ LanguageServerCommand
    \/ LanguageServerInitializationOptionsDebug
    \/ LanguageServerInitializationOptions
    \/ FileChange

Spec == Init /\ [][Next]_vars

----------------------------------------------------------------------------
(* Vocabulary of the properties, read off the record of the last call.     *)

IsCall == last.op = "language_server_command"

IsUtf8(p) == \A i \in 1..Len(p) : p[i] \notin NonUtf8Components

(* the file the string s names is on disk in fsys                          *)
OnDisk(fsys, s) ==
    \E p \in AllPaths : to_str(p) = Some(s) /\ fsys[p] # "absent"

(* the call found a cached path whose file was on disk                     *)
UsableCache ==
    /\ IsCall
    /\ last.pre_cached # None
    /\ OnDisk(last.pre_fs, last.pre_cached[1])

(* the call found a cached path whose file was gone                        *)
StaleCache ==
    /\ IsCall
    /\ last.pre_cached # None
    /\ ~OnDisk(last.pre_fs, last.pre_cached[1])

(* the candidate list of the search variant, written out                   *)
Candidates ==
    <<join(cwd, "bundle.js"), join(join(cwd, "language-server"), "bundle.js")>>
    \o (IF exe.ok /\ Len(exe.val) > 1
        THEN <<join(SubSeq(exe.val, 1, Len(exe.val) - 1), "bundle.js")>>
        ELSE <<>>)

(* k is the first candidate that was on disk when the call started         *)
IsFirstOnDisk(k) ==
    /\ k \in 1..Len(Candidates)
    /\ last.pre_fs[Candidates[k]] # "absent"
    /\ \A j \in 1..(k - 1) : last.pre_fs[Candidates[j]] = "absent"

NoCandidateOnDisk ==
    \A k \in 1..Len(Candidates) : last.pre_fs[Candidates[k]] = "absent"

Contains(msg, piece) == \E i \in 1..Len(msg) : msg[i] = piece

NotFoundHeader == "Language server bundle not found. Searched:\n"

IsNotFound(msg) == Len(msg) > 0 /\ msg[1] = NotFoundHeader
IsCurrentDirError(msg) == Len(msg) > 0 /\ msg[1] = "Failed to get current directory: "
IsWriteError(msg) == Len(msg) > 0 /\ msg[1] = "Failed to write language server bundle: "
IsConversionError(msg) == msg = <<"Failed to convert path to string">>

WriteSucceeded == Len(last.writes) = 1 /\ last.writes[1].ok
WriteFailed == Len(last.writes) = 1 /\ ~last.writes[1].ok

----------------------------------------------------------------------------
C2_Original ==
    (IsCall /\ variant = "search" /\ ~UsableCache) =>
        \A k \in 1..Len(Candidates) :
            IsFirstOnDisk(k) =>
                /\ last.resolution.ok
                /\ to_str(Candidates[k]) = Some(last.resolution.val)

(* C2 amended: in the search variant, with no usable cached path, when the *)
(* current directory can be determined and the first candidate on disk (in *)
(* the order cwd/bundle.js, cwd/language-server/bundle.js, and, when the   *)
(* executable's directory can be determined, exe-dir/bundle.js) has a      *)
(* valid UTF-8 path, the call returns that candidate.                      *)
C2_FirstExistingCandidate ==
    (IsCall /\ variant = "search" /\ ~UsableCache /\ last.cwd_r.ok) =>
        \A k \in 1..Len(Candidates) :
            (IsFirstOnDisk(k) /\ IsUtf8(Candidates[k])) =>
                /\ last.resolution.ok
                /\ to_str(Candidates[k]) = Some(last.resolution.val)
                /\ cached_binary_path = Some(last.resolution.val)

(* the first candidate is missing, the second and third are on disk, and   *)
(* the second is returned                                                  *)
C2_Witness ==
    /\ IsCall /\ variant = "search" /\ ~UsableCache /\ last.cwd_r.ok
    /\ Len(Candidates) = 3
    /\ IsFirstOnDisk(2)
    /\ last.pre_fs[Candidates[3]] # "absent"
    /\ Candidates[3] # Candidates[1]
    /\ last.resolution.ok
    /\ to_str(Candidates[2]) = Some(last.resolution.val)

(* C3 as stated: in the search variant, with no usable cached path and no  *)
(* candidate on disk, the call fails and the message contains every        *)
(* candidate path.                                                         *)
C3_Original ==
    (IsCall /\ variant = "search" /\ ~UsableCache /\ NoCandidateOnDisk) =>
        /\ ~last.resolution.ok
        /\ \A k \in 1..Len(Candidates) :
              Contains(last.resolution.err, display(Candidates[k]))

(* C3 amended: in the search variant, with no usable cached path, when the *)
(* current directory can be determined and no candidate is on disk, the    *)
(* call fails with the "bundle not found" message, which contains the path *)
(* of every candidate: cwd/bundle.js, cwd/language-server/bundle.js and,   *)
(* when the executable's directory can be determined, exe-dir/bundle.js.   *)
C3_NotFoundListsCandidates ==
    (IsCall /\ variant = "search" /\ ~UsableCache /\ last.cwd_r.ok
        /\ NoCandidateOnDisk) =>
        /\ ~last.resolution.ok
        /\ IsNotFound(last.resolution.err)
        /\ \A k \in 1..Len(Candidates) :
              Contains(last.resolution.err, display(Candidates[k]))

(* nothing on disk, three distinct candidates, the call fails              *)
C3_Witness ==
    /\ IsCall /\ variant = "search" /\ ~UsableCache /\ last.cwd_r.ok
    /\ NoCandidateOnDisk
    /\ Len(Candidates) = 3
    /\ Candidates[3] # Candidates[1]
    /\ ~last.resolution.ok

C5_LaunchDescriptor ==
    (IsCall /\ last.command.ok) =>
        /\ last.node.ok /\ last.resolution.ok
        /\ last.command.val.command = last.node.val
        /\ Len(last.command.val.args) = 2
        /\ last.command.val.args[1] = last.resolution.val
        /\ last.command.val.args[2] = "--stdio"
        /\ last.command.val.env = <<>>

(* a descriptor built from a path found by the search                      *)
C5_Witness ==
    /\ IsCall /\ last.command.ok
    /\ variant = "search" /\ ~last.hit
    /\ to_str(Candidates[2]) = Some(last.command.val.args[1])

(* C6 as stated: in the embedding variant the only error of resolution is  *)
(* a write error, and resolution succeeds whenever the write succeeded or  *)
(* the cache was hit.                                                      *)
C6_Original ==
    (IsCall /\ variant = "embed") =>
        /\ ~last.resolution.ok => IsWriteError(last.resolution.err)
        /\ (last.hit \/ WriteSucceeded) => last.resolution.ok

(* C6 amended: in the embedding variant resolution fails exactly when, the *)
(* cache being missed, the current directory cannot be determined, the     *)
(* write fails, or the target path is not valid UTF-8; the error says      *)
(* which of the three happened.  When the cache is hit, or all three       *)
(* steps succeed, the call returns a path.                                 *)
C6_EmbedFailures ==
    (IsCall /\ variant = "embed") =>
        /\ last.resolution.ok <=>
              \/ UsableCache
              \/ last.cwd_r.ok /\ WriteSucceeded /\ IsUtf8(EmbedTarget(cwd))
        /\ ~last.resolution.ok =>
              \/ IsCurrentDirError(last.resolution.err) /\ ~last.cwd_r.ok
                   /\ last.writes = <<>>
              \/ IsWriteError(last.resolution.err) /\ WriteFailed
              \/ IsConversionError(last.resolution.err) /\ WriteSucceeded
                   /\ ~IsUtf8(EmbedTarget(cwd))

(* the write succeeded and the call still failed, on the path conversion   *)
C6_Witness ==
    /\ IsCall /\ variant = "embed"
    /\ WriteSucceeded
    /\ fs[EmbedTarget(cwd)] = LANGUAGE_SERVER_BUNDLE
    /\ IsConversionError(last.resolution.err)

(* C7 as stated: in the search variant every error of a launch request is  *)
(* the "bundle not found" message listing the candidates tried.            *)
C7_Original ==
    (IsCall /\ variant = "search" /\ ~last.command.ok) =>
        /\ IsNotFound(last.command.err)
        /\ \A i \in 1..Len(last.probed) :
              Contains(last.command.err, display(last.probed[i]))

(* C7 amended: in the search variant every error of a launch request is    *)
(* one of four messages: the current directory could not be determined,    *)
(* the found path is not valid UTF-8, the host could not provide the node  *)
(* binary, or "bundle not found", which lists every candidate tried.       *)
C7_ErrorKinds ==
    (IsCall /\ variant = "search" /\ ~last.command.ok) =>
        \/ /\ IsCurrentDirError(last.command.err)
           /\ ~last.cwd_r.ok /\ last.probed = <<>>
        \/ /\ IsConversionError(last.command.err)
           /\ \E k \in 1..Len(Candidates) :
                IsFirstOnDisk(k) /\ ~IsUtf8(Candidates[k])
        \/ /\ last.resolution.ok
           /\ ~last.node.ok /\ last.command.err = last.node.err
        \/ /\ IsNotFound(last.command.err)
           /\ NoCandidateOnDisk
           /\ last.probed = Candidates
           /\ \A k \in 1..Len(Candidates) :
                Contains(last.command.err, display(Candidates[k]))

(* the script was found and the request failed on the node binary          *)
C7_Witness ==
    /\ IsCall /\ variant = "search" /\ ~last.command.ok
    /\ last.resolution.ok /\ ~last.hit
    /\ last.command.err = <<"failed to install node">>

(* C8 as stated: a launch request that returns an error leaves the cached  *)
(* path and the files as they were.                                        *)
C8_Original ==
    (IsCall /\ ~last.command.ok) =>
        /\ last.command.val = ""
        /\ cached_binary_path = last.pre_cached
        /\ last.writes = <<>>
        /\ fs = last.pre_fs

(* C8 amended: a launch request that returns an error produces no command  *)
(* descriptor.  When the error comes from resolution the cached path is    *)
(* unchanged; when resolution succeeded on a cache miss and the node       *)
(* lookup failed, the cached path is already the resolved one.  The search *)
(* variant writes no file; the embedding variant has written (or tried to  *)
(* write) the target whenever the cache was missed and the current         *)
(* directory was determined.                                               *)
C8_FailedLaunch ==
    (IsCall /\ ~last.command.ok) =>
        /\ last.command.val = ""
        /\ ~last.resolution.ok => cached_binary_path = last.pre_cached
        /\ (last.resolution.ok /\ ~last.hit) =>
              cached_binary_path = Some(last.resolution.val)
        /\ variant = "search" => (last.writes = <<>> /\ fs = last.pre_fs)
        /\ variant = "embed" =>
              (Len(last.writes) = 1 <=> (~UsableCache /\ last.cwd_r.ok))

(* the embedding variant wrote the file and cached the path, and the       *)
(* request failed on the node binary                                       *)
C8_Witness ==
    /\ IsCall /\ ~last.command.ok
    /\ variant = "embed"
    /\ last.resolution.ok /\ WriteSucceeded
    /\ last.pre_cached = None
    /\ cached_binary_path # None
    /\ fs # last.pre_fs

(* C9: the cached path starts empty and always equals the path returned by *)
(* the most recent successful cache-miss resolution (empty before the      *)
(* first); it changes only in a call that misses the cache and succeeds,   *)
(* and once set it is never cleared.                                       *)
C9_CachedPathLifetime ==
    /\ [](cached_binary_path = lastMiss)
    /\ [][/\ cached_binary_path # None => cached_binary_path' # None
          /\ cached_binary_path' # cached_binary_path =>
                /\ last'.op = "language_server_command"
                /\ ~last'.hit
                /\ last'.resolution.ok
                /\ cached_binary_path' = Some(last'.resolution.val)
          /\ (last'.op = "language_server_command" /\ ~last'.resolution.ok) =>
                cached_binary_path' = cached_binary_path
          /\ (last'.op = "language_server_initialization_options") =>
                cached_binary_path' = cached_binary_path]_vars

(* a resolution that failed although a path was cached, and kept it        *)
C9_Witness ==
    /\ IsCall /\ StaleCache
    /\ ~last.resolution.ok
    /\ cached_binary_path = last.pre_cached

(* C10: a path returned by resolution, and so the script argument of a     *)
(* launch descriptor, names a file that is on disk when the call returns;  *)
(* a cached path whose file is gone is not returned from the cache: the    *)
(* call goes on to the search (search variant) or to the write (embedding  *)
(* variant).                                                               *)
C10_ReturnedPathOnDisk ==
    IsCall =>
        /\ last.resolution.ok => OnDisk(fs, last.resolution.val)
        /\ last.command.ok => OnDisk(fs, last.command.val.args[1])
        /\ StaleCache =>
              /\ ~last.hit
              /\ last.status >= 1
              /\ last.cwd_r.ok =>
                    IF variant = "search"
                    THEN Len(last.probed) >= 1
                    ELSE Len(last.writes) = 1

(* the cached file was deleted and another candidate is returned           *)
C10_Witness ==
    /\ IsCall /\ StaleCache
    /\ variant = "search"
    /\ last.command.ok
    /\ last.command.val.args[1] # last.pre_cached[1]

====
